---- MODULE Spec2Model ----
(***************************************************************************)
(* Model of Interfaces/python/R/R/R.py: the R-style data_frame indexer     *)
(* (class omit, data_frame.__getitem__, nrow, ncol) and the column         *)
(* printer pretty().                                                       *)
(***************************************************************************)
EXTENDS Integers, Sequences, FiniteSets, TLC

VARIABLES
    self,            \* the data_frame being indexed
    called,          \* TRUE once self[...] has been evaluated on this frame
    arg,             \* the subscript expression of the latest self[...]
    exc,             \* exception raised by the latest self[...], or "none"
    ret,             \* value returned by the latest self[...]
    printed,         \* lines the latest self[...] wrote with print()
    list_of_strings, \* pretty: argument
    width,           \* pretty: argument
    hide_underscore, \* pretty: argument
    to_print,        \* pretty: local
    entry_width,     \* pretty: local
    line,            \* pretty: local
    idx,             \* pretty: position of the for loop in to_print (1-based)
    out,             \* pretty: lines written with print()
    pc,              \* pretty: control point
    pexc             \* pretty: exception raised, or "none"

dfvars == <<self, called, arg, exc, ret, printed>>
prvars == <<list_of_strings, width, hide_underscore, to_print, entry_width,
            line, idx, out, pc, pexc>>
vars == <<self, called, arg, exc, ret, printed, list_of_strings, width,
          hide_underscore, to_print, entry_width, line, idx, out, pc, pexc>>

\* ------------------------------------------------------------------ bounds
MaxRows == 3
MaxCols == 2
MaxSel == 2
MaxList == 3
MaxWidth == 10

\* ------------------------------------------------------- small utilities
RECURSIVE SeqsUpTo(_, _)
SeqsUpTo(S, n) ==
    IF n = 0 THEN {<<>>}
    ELSE LET shorter == SeqsUpTo(S, n - 1)
         IN shorter \cup {Append(s, x) : s \in {t \in shorter : Len(t) = n - 1}, x \in S}

SeqsOfLen(S, n) == {s \in SeqsUpTo(S, n) : Len(s) = n}

RECURSIVE Spaces(_)
Spaces(n) == IF n <= 0 THEN <<>> ELSE <<" ">> \o Spaces(n - 1)

\* --------------------------------------------------------- Python values
\* A Python object that can stand in a subscript.  tag names its type; the
\* other fields hold its payload (unused fields are empty).
Obj(tag, a, b, ints, bools, strs, itag) ==
    [tag |-> tag, a |-> a, b |-> b, ints |-> ints, bools |-> bools,
     strs |-> strs, itag |-> itag]

PyNone == Obj("None", 0, 0, <<>>, <<>>, <<>>, "")
PyInt(i) == Obj("int", i, 0, <<>>, <<>>, <<>>, "")
PyBool(v) == Obj("bool", 0, 0, <<>>, <<v>>, <<>>, "")
PyStr(chars) == Obj("str", 0, 0, <<>>, <<>>, chars, "")
PySlice(start, stop) == Obj("slice", start, stop, <<>>, <<>>, <<>>, "")
PySliceAll == Obj("slice_all", 0, 0, <<>>, <<>>, <<>>, "")
PyListInt(s) == Obj("list_int", 0, 0, s, <<>>, <<>>, "")
PyListBool(s) == Obj("list_bool", 0, 0, <<>>, s, <<>>, "")
PyListStr(s) == Obj("list_str", 0, 0, <<>>, <<>>, s, "")
PyOmit == Obj("omit", 0, 0, <<>>, <<>>, <<>>, "")

\* The unevaluated call omit(inner) / omit() inside a subscript expression.
OmitCall(inner) == [inner EXCEPT !.tag = "omit_call", !.itag = inner.tag]
OmitCall0 == Obj("omit_call", 0, 0, <<>>, <<>>, <<>>, "")
Inner(x) == [x EXCEPT !.tag = x.itag, !.itag = ""]

\* A subscript: self[e] passes e itself, self[e1, e2] passes the tuple.
Tuple(elems) == [istuple |-> TRUE, elems |-> elems]
Single(x) == [istuple |-> FALSE, elems |-> <<x>>]
NoArg == Tuple(<<>>)

\* len(x): defined for lists and strings, TypeError for the rest.
HasLen(x) == x.tag \in {"list_int", "list_bool", "list_str", "str"}
PyLen(x) ==
    CASE x.tag = "list_int" -> Len(x.ints)
      [] x.tag = "list_bool" -> Len(x.bools)
      [] x.tag \in {"list_str", "str"} -> Len(x.strs)
      [] OTHER -> 0

\* x[i] for a list or string x, i zero-based and in range.
PyItem(x, i) ==
    CASE x.tag = "list_int" -> PyInt(x.ints[i + 1])
      [] x.tag = "list_bool" -> PyBool(x.bools[i + 1])
      [] x.tag \in {"list_str", "str"} -> PyStr(<<x.strs[i + 1]>>)
      [] OTHER -> PyNone

\* ------------------------------------------------------------ data frames
ColNames == <<"a", "b", "c", "d">>
ColBase == <<10, 1, 100, 1000>>

Frame(nr, nc, shift) ==
    [names |-> [c \in 1..nc |-> ColNames[c]],
     data |-> [c \in 1..nc |-> [r \in 1..nr |-> ColBase[c] * r + shift]],
     nrows |-> nr]

Frames == {Frame(nr, nc, s) : nr \in 0..MaxRows, nc \in 0..MaxCols, s \in {0, 5}}

shape(df) == <<df.nrows, Len(df.names)>>
nrow(df) == shape(df)[1]
ncol(df) == shape(df)[2]

\* Values a subscript can return.
NoneResult == [kind |-> "None", names |-> <<>>, data |-> <<>>, nrows |-> 0]
TableResult(df) ==
    [kind |-> "Table", names |-> df.names, data |-> df.data, nrows |-> df.nrows]
ColumnResult(col) ==
    [kind |-> "Column", names |-> <<>>, data |-> <<col>>, nrows |-> Len(col)]

\* ------------------------------------------------------------ class omit
\* omit declares no __init__, so omit(x) is object's constructor refusing
\* its argument; only omit() yields an instance.
omit(args) ==
    IF Len(args) = 0 THEN [exc |-> "none", val |-> PyOmit]
    ELSE [exc |-> "TypeError", val |-> PyNone]

\* Evaluation of the subscript expression, left to right, before the call.
EvalElem(x) ==
    IF x.tag = "omit_call"
    THEN omit(IF x.itag = "" THEN <<>> ELSE <<Inner(x)>>)
    ELSE [exc |-> "none", val |-> x]

EvalArg(e) ==
    LET evs == [i \in 1..Len(e.elems) |-> EvalElem(e.elems[i])]
        bad == {i \in 1..Len(e.elems) : evs[i].exc # "none"}
    IN IF bad = {}
       THEN [exc |-> "none",
             val |-> [istuple |-> e.istuple,
                      elems |-> [i \in 1..Len(e.elems) |-> evs[i].val]]]
       ELSE [exc |-> evs[CHOOSE i \in bad : \A j \in bad : i <= j].exc,
             val |-> NoArg]

\* ------------------------------------------------ data_frame.__getitem__
\* The guard of __getitem__:
\*   if not isinstance(arg, tuple) and not len(arg) == 2: raise Exception
\* len() is only evaluated for a non-tuple and raises TypeError on an
\* object without a length.
guard(a) ==
    IF a.istuple THEN "none"
    ELSE IF ~HasLen(a.elems[1]) THEN "TypeError"
    ELSE IF PyLen(a.elems[1]) # 2 THEN "Exception"
    ELSE "none"

\* arg[i] as the code reads it after the guard (i zero-based).
subscript(a, i) ==
    IF a.istuple
    THEN IF i < Len(a.elems)
         THEN [exc |-> "none", val |-> a.elems[i + 1]]
         ELSE [exc |-> "IndexError", val |-> PyNone]
    ELSE [exc |-> "none", val |-> PyItem(a.elems[1], i)]

\* What follows the two print() calls: only comments ("TODO actually do
\* the indexing"), so the method falls off its end and returns None; the
\* frame is never written.
indexing_mutates(df, rows, cols) ==
    [ret |-> NoneResult,
     self |-> [df EXCEPT !.nrows = 0,
                         !.data = [c \in 1..Len(df.data) |-> <<>>]]]

indexing_echoes(df, rows, cols) ==
    [ret |-> [kind |-> "Table", names |-> df.names, data |-> <<rows.ints>>,
              nrows |-> Len(rows.ints)],
     self |-> df]

indexing(df, rows, cols) ==
    [ret |-> NoneResult, self |-> df]

Raise(df, kind) ==
    [exc |-> kind, ret |-> NoneResult, printed |-> <<>>, self |-> df]

getitem(df, a) ==
    IF guard(a) # "none" THEN Raise(df, guard(a))
    ELSE LET rows == subscript(a, 0)
             cols == subscript(a, 1)
         IN IF rows.exc # "none" THEN Raise(df, rows.exc)
            ELSE IF cols.exc # "none" THEN Raise(df, cols.exc)
            ELSE LET r == indexing(df, rows.val, cols.val)
                 IN [exc |-> "none",
                     ret |-> r.ret,
                     printed |-> <<[label |-> "rows =  ", value |-> rows.val],
                                   [label |-> "cols =  ", value |-> cols.val]>>,
                     self |-> r.self]

\* The whole statement self[e]: build the subscript, then call __getitem__.
Subscript(df, e) ==
    LET ev == EvalArg(e)
    IN IF ev.exc # "none" THEN Raise(df, ev.exc) ELSE getitem(df, ev.val)

\* ------------------------------------------------- subscripts enumerated
\* Row selectors on an axis of extent n: positions from -1 to n, lists of
\* them, slices, boolean lists of every length up to n + 1, labels.
Positions(n) == -1..n
RowAtoms(n) ==
    {PySliceAll, PyOmit}
    \cup {PyInt(i) : i \in Positions(n)}
    \cup {PyListInt(s) : s \in SeqsUpTo(Positions(n), MaxSel)}
    \cup {PySlice(i, j) : i \in 0..(n + 1), j \in 0..(n + 1)}
    \cup {PyListBool(s) : s \in SeqsUpTo(BOOLEAN, n + 1)}
    \cup {PyStr(<<"a">>), PyStr(<<"a", "b">>), PyStr(<<>>)}
OmitArgs(n) ==
    {PySliceAll}
    \cup {PyInt(i) : i \in Positions(n)}
    \cup {PyListInt(s) : s \in SeqsUpTo(Positions(n), MaxSel)}
    \cup {PyListBool(s) : s \in SeqsOfLen(BOOLEAN, n)}
RowSelectors(n) ==
    RowAtoms(n) \cup {OmitCall(x) : x \in OmitArgs(n)} \cup {OmitCall0}

ColSelectors(df) ==
    {PySliceAll, PyInt(ncol(df)), PyStr(<<"a">>), PyListStr(<<"b", "a">>),
     OmitCall(PyStr(<<"a">>))}

FewSelectors == {PySliceAll, PyInt(0), PyStr(<<"a">>)}

Subscripts(df) ==
    {Tuple(<<r, c>>) : r \in RowSelectors(nrow(df)), c \in ColSelectors(df)}
    \cup {Single(r) : r \in RowSelectors(nrow(df))}
    \cup {Tuple(<<>>)}
    \cup {Tuple(<<r>>) : r \in FewSelectors}
    \cup {Tuple(<<r, c, x>>) : r \in FewSelectors, c \in FewSelectors, x \in FewSelectors}

\* ---------------------------------------------------------------- pretty
\* Strings are sequences of one-character strings.
Strings ==
    {<<>>, <<"a">>, <<"_">>, <<"_", "a">>, <<"a", "_">>, <<"a", "b">>,
     <<"a", "_", "b">>}

\* (x[0] == '_') | (x[-1] == '_'); both subscripts need a non-empty x.
is_private(x) == (x[1] = "_") \/ (x[Len(x)] = "_")

\* The two list comprehensions of the hide_underscore branch.  The first
\* subscripts every element, so an empty string raises IndexError.
visible(strs) ==
    IF \E k \in 1..Len(strs) : Len(strs[k]) = 0
    THEN [exc |-> "IndexError", val |-> <<>>]
    ELSE [exc |-> "none", val |-> SelectSeq(strs, LAMBDA x : is_private(x) = FALSE)]

\* np.max([len(x) for x in to_print]) on a non-empty list.
max_len(strs) ==
    CHOOSE m \in {Len(strs[k]) : k \in 1..Len(strs)} :
        \A k \in 1..Len(strs) : Len(strs[k]) <= m

pad(entry, ew) == entry \o Spaces(ew - Len(entry))

\* The body of the for loop: extend the line, or print it and start anew.
place_strictly(ln, entry, ew, w) ==
    IF Len(ln) + ew < w
    THEN [line |-> ln \o pad(entry, ew), printed |-> <<>>]
    ELSE [line |-> pad(entry, ew), printed |-> <<ln>>]

place(ln, entry, ew, w) ==
    IF Len(ln) + ew <= w
    THEN [line |-> ln \o pad(entry, ew), printed |-> <<>>]
    ELSE [line |-> pad(entry, ew), printed |-> <<ln>>]

PrettyIdle ==
    /\ list_of_strings = <<>>
    /\ width = 0
    /\ hide_underscore = TRUE
    /\ to_print = <<>>
    /\ entry_width = 0
    /\ line = <<>>
    /\ idx = 0
    /\ out = <<>>
    /\ pc = "idle"
    /\ pexc = "none"

\* ------------------------------------------------- data_frame behaviour
\* data_frame(...): the pandas constructor, unchanged.
Construct ==
    /\ called
    /\ self' \in Frames
    /\ called' = FALSE
    /\ arg' = NoArg
    /\ exc' = "none"
    /\ ret' = NoneResult
    /\ printed' = <<>>
    /\ UNCHANGED prvars

\* self[e]
Index ==
    /\ ~called
    /\ \E e \in Subscripts(self) :
        LET r == Subscript(self, e)
        IN /\ arg' = e
           /\ called' = TRUE
           /\ exc' = r.exc
           /\ ret' = r.ret
           /\ printed' = r.printed
           /\ self' = r.self
           /\ UNCHANGED prvars

DataFrameIdle ==
    /\ self = Frame(0, 0, 0)
    /\ called = FALSE
    /\ arg = NoArg
    /\ exc = "none"
    /\ ret = NoneResult
    /\ printed = <<>>

\* ----------------------------------------------------- pretty behaviour
\* if hide_underscore: ... else: to_print = list_of_strings
Filter ==
    /\ pc = "called"
    /\ LET v == IF hide_underscore THEN visible(list_of_strings)
                ELSE [exc |-> "none", val |-> list_of_strings]
       IN /\ pexc' = v.exc
          /\ to_print' = v.val
          /\ pc' = IF v.exc = "none" THEN "filtered" ELSE "raised"
    /\ UNCHANGED <<list_of_strings, width, hide_underscore, entry_width, line,
                   idx, out>>
    /\ UNCHANGED dfvars

\* if len(to_print) == 0: return
ReturnEmpty ==
    /\ pc = "filtered"
    /\ Len(to_print) = 0
    /\ pc' = "done"
    /\ UNCHANGED <<list_of_strings, width, hide_underscore, to_print,
                   entry_width, line, idx, out, pexc>>
    /\ UNCHANGED dfvars

\* max_len = ...; entry_width = max_len + 2; line = ''
Measure ==
    /\ pc = "filtered"
    /\ Len(to_print) # 0
    /\ entry_width' = max_len(to_print) + 2
    /\ line' = <<>>
    /\ idx' = 1
    /\ pc' = "loop"
    /\ UNCHANGED <<list_of_strings, width, hide_underscore, to_print, out, pexc>>
    /\ UNCHANGED dfvars

\* one iteration of: for entry in to_print
Place ==
    /\ pc = "loop"
    /\ idx <= Len(to_print)
    /\ LET p == place(line, to_print[idx], entry_width, width)
       IN /\ line' = p.line
          /\ out' = out \o p.printed
    /\ idx' = idx + 1
    /\ UNCHANGED <<list_of_strings, width, hide_underscore, to_print,
                   entry_width, pc, pexc>>
    /\ UNCHANGED dfvars

\* the print(line) after the loop
Flush ==
    /\ pc = "loop"
    /\ idx > Len(to_print)
    /\ out' = Append(out, line)
    /\ pc' = "done"
    /\ UNCHANGED <<list_of_strings, width, hide_underscore, to_print,
                   entry_width, line, idx, pexc>>
    /\ UNCHANGED dfvars

PrettyInit ==
    /\ DataFrameIdle
    /\ list_of_strings \in SeqsUpTo(Strings, MaxList)
    /\ width \in 0..MaxWidth
    /\ hide_underscore \in BOOLEAN
    /\ to_print = <<>>
    /\ entry_width = 0
    /\ line = <<>>
    /\ idx = 0
    /\ out = <<>>
    /\ pc = "called"
    /\ pexc = "none"

PrettyNext == Filter \/ ReturnEmpty \/ Measure \/ Place \/ Flush

PrettySpec == PrettyInit /\ [][PrettyNext]_vars

Init ==
    /\ self \in Frames
    /\ called = FALSE
    /\ arg = NoArg
    /\ exc = "none"
    /\ ret = NoneResult
    /\ printed = <<>>
    /\ PrettyIdle

Next == Construct \/ Index

Spec == Init /\ [][Next]_vars

\* ------------------------------------------- the selection the spec asks
\* The position sequence spec section 4.1 assigns to a row selector on an
\* axis of extent n, and the sub-table section 4.1 step 4 builds from it.
\* These state what the claims expect; nothing in R.py computes them.
InRange(i, n) == 0 <= i /\ i < n
Resolves(s, n) ==
    CASE s.tag = "slice_all" -> TRUE
      [] s.tag = "int" -> InRange(s.a, n)
      [] s.tag = "list_int" -> \A k \in 1..Len(s.ints) : InRange(s.ints[k], n)
      [] s.tag = "slice" -> s.a >= s.b \/ (s.a <= n /\ s.b <= n)
      [] s.tag = "list_bool" -> Len(s.bools) = n
      [] OTHER -> FALSE

RECURSIVE TruePositions(_, _)
TruePositions(m, k) ==
    IF k > Len(m) THEN <<>>
    ELSE (IF m[k] THEN <<k - 1>> ELSE <<>>) \o TruePositions(m, k + 1)

Resolve(s, n) ==
    CASE s.tag = "slice_all" -> [k \in 1..n |-> k - 1]
      [] s.tag = "int" -> <<s.a>>
      [] s.tag = "list_int" -> s.ints
      [] s.tag = "slice" -> IF s.a >= s.b THEN <<>>
                            ELSE [k \in 1..(s.b - s.a) |-> s.a + k - 1]
      [] s.tag = "list_bool" -> TruePositions(s.bools, 1)
      [] OTHER -> <<>>

Range(q) == {q[k] : k \in 1..Len(q)}
NoDuplicates(q) == Cardinality(Range(q)) = Len(q)
Orderings(S) ==
    {q \in [1..Cardinality(S) -> S] : Range(q) = S}

SelectRows(df, q) ==
    [kind |-> "Table",
     names |-> df.names,
     data |-> [c \in 1..Len(df.data) |-> [k \in 1..Len(q) |-> df.data[c][q[k] + 1]]],
     nrows |-> Len(q)]

TwoSelectors(e) == e.istuple /\ Len(e.elems) = 2
RowSel(e) == e.elems[1]
ColSel(e) == e.elems[2]
AllColumns(e) == TwoSelectors(e) /\ ColSel(e) = PySliceAll

\* ---------------------------------------------------------------- claims
\* C1: a subscript that does not supply exactly two selectors is rejected
\* with ValueError, before anything is done with the selectors.
C1_ArityRejected ==
    (called /\ ~TwoSelectors(arg)) => (exc = "ValueError" /\ printed = <<>>)

\* C2: self[:, :] returns a table equal in content and shape to self.
C2_RoundTrip ==
    (called /\ arg = Tuple(<<PySliceAll, PySliceAll>>))
        => (exc = "none" /\ ret = TableResult(self))

\* C3: on rows, Omit(s) selects exactly the positions s does not select:
\* for s resolving without duplicates, self[omit(s), :] is the table of
\* the rows of self outside resolve(s), each once.
C3_OmitComplement ==
    (/\ called
     /\ AllColumns(arg)
     /\ RowSel(arg).tag = "omit_call"
     /\ Resolves(Inner(RowSel(arg)), nrow(self))
     /\ NoDuplicates(Resolve(Inner(RowSel(arg)), nrow(self))))
        => (/\ exc = "none"
            /\ \E q \in Orderings((0..(nrow(self) - 1))
                                  \ Range(Resolve(Inner(RowSel(arg)), nrow(self)))) :
                   ret = SelectRows(self, q))

\* C4: for a=[10,20,30], b=[1,2,3], self[omit(1), "a"] is the one-column
\* sequence [10, 30] (rows under Omit ascending).
C4_OmitScenario ==
    (/\ called
     /\ self = Frame(3, 2, 0)
     /\ arg = Tuple(<<OmitCall(PyInt(1)), PyStr(<<"a">>)>>))
        => (exc = "none" /\ ret = ColumnResult(<<10, 30>>))

\* C5: a Position/Positions row selector holding an index outside
\* 0 <= idx < nrow raises IndexError.
C5_OutOfBounds ==
    (/\ called
     /\ AllColumns(arg)
     /\ RowSel(arg).tag \in {"int", "list_int"}
     /\ ~Resolves(RowSel(arg), nrow(self)))
        => exc = "IndexError"

C7_EmptyRange ==
    (/\ called
     /\ AllColumns(arg)
     /\ RowSel(arg).tag = "slice"
     /\ RowSel(arg).a >= RowSel(arg).b)
        => (exc = "none" /\ ret.kind = "Table" /\ ret.nrows = 0)

\* C8: a subscript never changes the frame it is applied to, whether it
\* returns or raises, and a subscript that raises, or whose row selector
\* cannot be resolved, returns no table.
C8_PureRead ==
    [][called' =>
          /\ self' = self
          /\ exc' # "none" => ret' = NoneResult
          /\ (AllColumns(arg') /\ ~Resolves(RowSel(arg'), nrow(self)))
                 => ret'.kind # "Table"]_vars

C8_Witness ==
    /\ called
    /\ nrow(self) = 3
    /\ ncol(self) = 2
    /\ arg = Tuple(<<PyInt(0)>>)
    /\ exc = "IndexError"
    /\ ret = NoneResult

\* ------------------------------------------------------ claims on pretty
Finished == pc \in {"done", "raised"}

\* The entries a reader finds in the output: every line cut into fields of
\* entry_width characters, each field without its trailing blanks.
RECURSIVE Stripped(_)
Stripped(f) ==
    IF Len(f) > 0 /\ f[Len(f)] = " " THEN Stripped(SubSeq(f, 1, Len(f) - 1)) ELSE f

RECURSIVE Fields(_, _)
Fields(ln, ew) ==
    IF Len(ln) = 0 \/ ew <= 0 THEN <<>>
    ELSE IF Len(ln) <= ew THEN <<ln>>
    ELSE <<SubSeq(ln, 1, ew)>> \o Fields(SubSeq(ln, ew + 1, Len(ln)), ew)

RECURSIVE Flatten(_)
Flatten(ss) == IF Len(ss) = 0 THEN <<>> ELSE Head(ss) \o Flatten(Tail(ss))

LineFields(lines, ew) ==
    Flatten([k \in 1..Len(lines) |-> Fields(lines[k], ew)])
PrintedEntries(lines, ew) ==
    LET fs == LineFields(lines, ew) IN [k \in 1..Len(fs) |-> Stripped(fs[k])]

Underscored(x) == Len(x) > 0 /\ (x[1] = "_" \/ x[Len(x)] = "_")

\* C9: with hide_underscore the output holds exactly the elements that
\* neither begin nor end with an underscore, without it every element;
\* each once, in input order.
C9_PrintsVisible ==
    Finished =>
        PrintedEntries(out, entry_width) =
            IF hide_underscore
            THEN SelectSeq(list_of_strings, LAMBDA x : ~Underscored(x))
            ELSE list_of_strings

\* C10: entry_width is the longest entry to print plus 2; the output is
\* the entries in fields of exactly entry_width characters; if
\* entry_width <= width every printed line is non-empty, a whole number
\* of fields and at most width long; a line is ended early only when one
\* more field would exceed width; nothing is printed for no entries.
C10_LineLayout ==
    LET started == out \o (IF pc = "loop" THEN <<line>> ELSE <<>>)
        placed == IF pc = "loop" THEN idx - 1
                  ELSE IF pc = "done" THEN Len(to_print) ELSE 0
        fields == LineFields(started, entry_width)
        ended == IF pc = "done" /\ Len(out) > 0
                 THEN SubSeq(out, 1, Len(out) - 1) ELSE out
    IN /\ pc \in {"loop", "done"} /\ Len(to_print) > 0 =>
              /\ \A k \in 1..Len(to_print) : Len(to_print[k]) + 2 <= entry_width
              /\ \E k \in 1..Len(to_print) : Len(to_print[k]) + 2 = entry_width
              /\ Len(fields) = placed
              /\ \A k \in 1..placed :
                     /\ Len(fields[k]) = entry_width
                     /\ fields[k] = to_print[k] \o Spaces(entry_width - Len(to_print[k]))
       /\ entry_width <= width =>
              \A k \in 1..Len(out) :
                  /\ Len(out[k]) > 0
                  /\ Len(out[k]) % entry_width = 0
                  /\ Len(out[k]) <= width
       /\ \A k \in 1..Len(ended) : Len(ended[k]) + entry_width > width
       /\ (pc = "done" /\ Len(to_print) = 0) => out = <<>>

C10_Witness ==
    /\ pc = "done"
    /\ Len(to_print) = 3
    /\ entry_width <= width
    /\ Len(out) = 2
    /\ Len(out[1]) = 2 * entry_width
    /\ Len(out[1]) = width

====
